---- MODULE Spec2Model ----
(***************************************************************************)
(* A model of expiring_arrays.py: the LRUArray, TTLArray and STLArray      *)
(* collections, their eviction check, their snapshot operations and the    *)
(* locking decorators around every public operation.                       *)
(*                                                                         *)
(* A deque is a sequence whose index 1 is the left end (the head, where    *)
(* appendleft inserts) and whose last index is the right end (the tail,    *)
(* where pop removes).  A dict is a function whose DOMAIN is its key set.  *)
(* A timing record [timestamp, item] is the pair <<timestamp, item>>.      *)
(* Python values handed to or returned by a call are tagged records        *)
(* [tag |-> "None" | "list" | "dict" | "str" | "deque", val |-> ...].      *)
(***************************************************************************)
EXTENDS Integers, Sequences, FiniteSets, TLC

VARIABLES
    obj,        \* the instance the calls are made on: its attributes
    clock,      \* real time, in units of 1/UnitsPerSecond second
    ticks,      \* how many times the clock has advanced
    call,       \* the last call made: [op, arg, ret, err] and the time it was made at
    other,      \* a second, freshly constructed instance a snapshot was restored into
    restored,   \* history: some restore operation has replaced obj's contents
    recent,     \* history: the distinct elements added so far, most recent first
    lock,       \* the module-level lock: 0 when free, else the thread holding it
    pc,         \* per thread: where it stands inside the decorator
    locked,     \* per thread: the value of obj.threadsafe it read when its call began
    job         \* per thread: the operation it is running, [op, arg]

vars == <<obj, clock, ticks, call, other, restored, recent, lock, pc, locked, job>>

(***************************************************************************)
(* Bounds of the model.                                                    *)
(***************************************************************************)
MaxCap == 2             \* max_length ranges over 0..MaxCap
MaxTimeout == 1         \* timeout ranges over 1..MaxTimeout
MaxTicks == 2           \* the clock advances at most this many times
MaxLoadLen == 2         \* length of the lists a caller builds by hand
UnitsPerSecond == 2     \* resolution of the modelled real clock

(***************************************************************************)
(* Program constants.                                                      *)
(***************************************************************************)
SecondsPerDay == 86400      \* timedelta.seconds wraps at one day
DefaultTimeout == 60
DefaultMaxLength == 100

\* Elements a caller may add: two strings and a tuple (all hashable).
Elements == {"a", "b", "(t)"}
\* What json.loads gives back for a tuple: a list, which is not hashable.
Hashable(e) == e \in Elements

Threads == {1, 2}
\* the clock advances by a second or by a day
Advances == {UnitsPerSecond, SecondsPerDay * UnitsPerSecond}

(***************************************************************************)
(* Python values.                                                          *)
(***************************************************************************)
None == [tag |-> "None"]
List(s) == [tag |-> "list", val |-> s]
Dict(d) == [tag |-> "dict", val |-> d]
Str(s) == [tag |-> "str", val |-> s]
Bool(b) == [tag |-> "bool", val |-> b]
\* The deque object obj._items itself (LRUArray.dump returns it, not a copy).
TheDeque == [tag |-> "deque"]

\* str(bool)
BoolStr(b) == IF b THEN "True" ELSE "False"

Min(a, b) == IF a < b THEN a ELSE b
Last(s) == s[Len(s)]
Front(s) == SubSeq(s, 1, Len(s) - 1)
Range(s) == {s[i] : i \in 1..Len(s)}
SeqsUpTo(S, n) == UNION {[1..k -> S] : k \in 0..n}

\* deque.remove(x): drops the first occurrence
RemoveFirst(s, x) ==
    LET i == CHOOSE j \in 1..Len(s) : s[j] = x /\ \A k \in 1..(j - 1) : s[k] # x
    IN  SubSeq(s, 1, i - 1) \o SubSeq(s, i + 1, Len(s))

EmptyDict == <<>>
DictSet(d, k, v) == [x \in (DOMAIN d) \cup {k} |-> IF x = k THEN v ELSE d[x]]
DictDel(d, k) == [x \in (DOMAIN d) \ {k} |-> d[x]]
\* dict(zip(ks, vs)): zip stops at the shorter list, a later pair overrides an earlier
DictZip(ks, vs) ==
    LET n == Min(Len(ks), Len(vs))
    IN  [k \in {ks[i] : i \in 1..n} |->
            vs[CHOOSE i \in 1..n : ks[i] = k /\ \A j \in (i + 1)..n : ks[j] # k]]
\* zip(a, b) as a sequence of pairs
Zip(a, b) == [i \in 1..Min(Len(a), Len(b)) |-> <<a[i], b[i]>>]

\* Outcome of a step inside a call: the object as left behind, and the exception
Ok(o) == [obj |-> o, err |-> "none"]
Raise(o, e) == [obj |-> o, err |-> e]
\* Outcome of a call: the object, the value returned, the exception raised
Return(o, v) == [obj |-> o, ret |-> v, err |-> "none"]
Throw(o, e) == [obj |-> o, ret |-> None, err |-> e]

(***************************************************************************)
(* Constructors.                                                           *)
(***************************************************************************)
NewLRU(max_length, threadsafe) ==
    [kind |-> "LRU", threadsafe |-> threadsafe, max_length |-> max_length,
     items |-> <<>>]

NewTTL(kind, timeout, retain_one, max_length, threadsafe) ==
    [kind |-> kind, threadsafe |-> threadsafe, max_length |-> max_length,
     timing |-> <<>>, items |-> EmptyDict,
     timeout |-> timeout, retain_one |-> retain_one]

(***************************************************************************)
(* The clock.                                                              *)
(***************************************************************************)
\* TTLArray reads datetime.today(), STLArray int(time.time())
NoRightNow(o, t) == IF o.kind = "STL" THEN t \div UnitsPerSecond ELSE t

\* TTLArray compares timedelta.seconds, the seconds field of the difference
\* (0 <= seconds < 86400, the days held apart); STLArray the difference itself.
ElapsedTime(o, t, date_obj) ==
    IF o.kind = "STL"
    THEN NoRightNow(o, t) - date_obj
    ELSE ((NoRightNow(o, t) - date_obj) \div UnitsPerSecond) % SecondsPerDay

(***************************************************************************)
(* BaseExpiringArray._check_max_length: len(self._items) > self.max_length *)
(* _items is the deque of an LRUArray and the dict of a TTLArray.          *)
(***************************************************************************)
ItemsLen(o) == IF o.kind = "LRU" THEN Len(o.items) ELSE Cardinality(DOMAIN o.items)

CheckMaxLength(o) == ItemsLen(o) > o.max_length

(***************************************************************************)
(* LRUArray: eviction.                                                     *)
(***************************************************************************)
\* _remove_item: self._items.pop()
RemoveItem(o) ==
    IF o.items = <<>> THEN Raise(o, "IndexError")
    ELSE Ok([o EXCEPT !.items = Front(o.items)])

RECURSIVE LruCheckExpired(_)
LruCheckExpired(o) ==
    IF CheckMaxLength(o)
    THEN LET r == RemoveItem(o)
         IN  IF r.err # "none" THEN r ELSE LruCheckExpired(r.obj)
    ELSE Ok(o)

(***************************************************************************)
(* TTLArray / STLArray: eviction.                                          *)
(***************************************************************************)
\* a check that tests for more than one element
CheckRetainOneMany(o) == o.retain_one /\ Cardinality(DOMAIN o.items) > 1

CheckRetainOne(o) == o.retain_one /\ Cardinality(DOMAIN o.items) = 1

\* _remove_expired_item: item = self._timing.pop()[1]; del self._items[item]
\* The pop has happened when the del raises.
RemoveExpiredItem(o) ==
    IF o.timing = <<>> THEN Raise(o, "IndexError")
    ELSE LET item == Last(o.timing)[2]
             popped == [o EXCEPT !.timing = Front(o.timing)]
         IN  IF ~Hashable(item) THEN Raise(popped, "TypeError")
             ELSE IF item \notin DOMAIN o.items THEN Raise(popped, "KeyError")
             ELSE Ok([popped EXCEPT !.items = DictDel(o.items, item)])

\* while self._check_max_length(): self._remove_expired_item()
RECURSIVE TrimToMaxLength(_)
TrimToMaxLength(o) ==
    IF CheckMaxLength(o)
    THEN LET r == RemoveExpiredItem(o)
         IN  IF r.err # "none" THEN r ELSE TrimToMaxLength(r.obj)
    ELSE Ok(o)

\* a sweep that takes a record for expired as soon as its age reaches timeout
RECURSIVE SweepAtTimeout(_, _, _, _)
SweepAtTimeout(o, t, copy, i) ==
    IF i > Len(copy) THEN Ok(o)
    ELSE IF ElapsedTime(o, t, copy[i][1]) >= o.timeout
         THEN LET r == RemoveExpiredItem(o)
              IN  IF r.err # "none" THEN r ELSE SweepAtTimeout(r.obj, t, copy, i + 1)
         ELSE Ok(o)

\* for date_obj, _ in list(self._timing): the loop walks a copy of the deque
\* taken before the first removal, from its left end (index 1, the newest
\* record); every record found expired costs the deque its right end.
\* The clock is read once per call (t): the reads of one sweep are taken to
\* fall in the same clock unit.
RECURSIVE Sweep(_, _, _, _)
Sweep(o, t, copy, i) ==
    IF i > Len(copy) THEN Ok(o)
    ELSE IF ElapsedTime(o, t, copy[i][1]) > o.timeout
         THEN LET r == RemoveExpiredItem(o)
              IN  IF r.err # "none" THEN r ELSE Sweep(r.obj, t, copy, i + 1)
         ELSE Ok(o)

TtlCheckExpired(o, t) ==
    IF CheckRetainOne(o) THEN Ok(o)
    ELSE LET r == TrimToMaxLength(o)
         IN  IF r.err # "none" THEN r ELSE Sweep(r.obj, t, r.obj.timing, 1)

\* obj._check_expired(), by the class of obj
CheckExpired(o, t) ==
    IF o.kind = "LRU" THEN LruCheckExpired(o) ELSE TtlCheckExpired(o, t)

(***************************************************************************)
(* LRUArray: the decorated methods.                                        *)
(***************************************************************************)
\* an add that leaves the old occurrence where it is
LruAddBodyKeepsOld(o, item, t) ==
    Return([o EXCEPT !.items = <<item>> \o o.items], None)

LruAddBody(o, item, t) ==
    LET kept == IF item \in Range(o.items) THEN RemoveFirst(o.items, item)
                ELSE o.items
    IN  Return([o EXCEPT !.items = <<item>> \o kept], None)

LruItemsBody(o, arg, t) == Return(o, List(o.items))

\* return self._items: the deque itself
LruDumpBody(o, arg, t) == Return(o, TheDeque)

Reverse(q) == [i \in 1..Len(q) |-> q[Len(q) + 1 - i]]

\* a load that fills the deque with extendleft, which reverses the order
LruLoadBodyReversed(o, l, t) ==
    IF l.tag = "deque" THEN Return([o EXCEPT !.items = Reverse(o.items)], None)
    ELSE IF l.tag = "list" THEN Return([o EXCEPT !.items = Reverse(l.val)], None)
    ELSE Throw(o, "TypeError")

\* a deque is installed as it is (here always obj's own), anything else copied
LruLoadBody(o, l, t) ==
    IF l.tag = "deque" THEN Return(o, None)
    ELSE IF l.tag = "list" THEN Return([o EXCEPT !.items = l.val], None)
    ELSE Throw(o, "TypeError")

(***************************************************************************)
(* TTLArray / STLArray: the decorated methods.                             *)
(***************************************************************************)
\* an add that puts the record at the right end (append, not appendleft)
TtlAddBodyAppends(o, item, t) ==
    LET now == NoRightNow(o, t)
        kept == IF item \in DOMAIN o.items /\ <<o.items[item], item>> \in Range(o.timing)
                THEN RemoveFirst(o.timing, <<o.items[item], item>>)
                ELSE o.timing
    IN  Return([o EXCEPT !.timing = kept \o <<<<now, item>>>>,
                         !.items = DictSet(o.items, item, now)], None)

TtlAddBody(o, item, t) ==
    LET now == NoRightNow(o, t)
    IN  IF item \in DOMAIN o.items
        THEN LET time == o.items[item]
             IN  IF <<time, item>> \notin Range(o.timing)
                 THEN Throw(o, "ValueError")
                 ELSE Return([o EXCEPT
                        !.timing = <<<<now, item>>>> \o RemoveFirst(o.timing, <<time, item>>),
                        !.items = DictSet(o.items, item, now)], None)
        ELSE Return([o EXCEPT !.timing = <<<<now, item>>>> \o o.timing,
                              !.items = DictSet(o.items, item, now)], None)

\* [i[1] for i in self._timing]
ItemsOf(timing) == [i \in 1..Len(timing) |-> timing[i][2]]
TimesOf(timing) == [i \in 1..Len(timing) |-> timing[i][1]]

TtlItemsBody(o, arg, t) == Return(o, List(ItemsOf(o.timing)))

Params(o) ==
    [_timeout |-> o.timeout, _max_length |-> o.max_length,
     _retain_one |-> BoolStr(o.retain_one), _threadsafe |-> BoolStr(o.threadsafe)]

TtlDumpBody(o, include_params, t) ==
    IF o.timing = <<>> THEN Return(o, None)
    ELSE IF include_params
         THEN Return(o, Dict([params |-> Params(o),
                              timing_list |-> TimesOf(o.timing),
                              item_list |-> ItemsOf(o.timing)]))
         ELSE Return(o, Dict([timing_list |-> TimesOf(o.timing),
                              item_list |-> ItemsOf(o.timing)]))

\* self._items = dict(zip(item_list, timing_list))
\* self._timing = deque(list(i) for i in zip(timing_list, item_list))
\* dict() raises on an unhashable key, before either attribute is assigned
LoadLists(o, item_list, timing_list) ==
    IF \E p \in Range(Zip(item_list, timing_list)) : ~Hashable(p[1])
    THEN Raise(o, "TypeError")
    ELSE Ok([o EXCEPT !.items = DictZip(item_list, timing_list),
                      !.timing = Zip(timing_list, item_list)])

LoadParams(o, params) ==
    [o EXCEPT !.timeout = params._timeout,
              !.max_length = params._max_length,
              !.retain_one = (params._retain_one = "True"),
              !.threadsafe = (params._threadsafe = "True")]

TtlLoadBody(o, dictionary, t) ==
    IF dictionary.tag # "dict" THEN Throw(o, "TypeError")
    ELSE LET d == dictionary.val
         IN  IF "item_list" \notin DOMAIN d THEN Throw(o, "KeyError")
             ELSE IF "timing_list" \notin DOMAIN d THEN Throw(o, "KeyError")
             ELSE LET lists == LoadLists(o, d.item_list, d.timing_list)
                  IN  IF lists.err # "none" THEN Throw(lists.obj, lists.err)
                      ELSE IF "params" \in DOMAIN d
                      THEN Return(LoadParams(lists.obj, d.params), None)
                      ELSE Return(lists.obj, None)

TtlDumpTimingListBody(o, arg, t) == Return(o, List(o.timing))

\* self._items = dict([(v, k) for k, v in t]): the last record of an item
\* gives its time; dict() raises on an unhashable key
RebuildItems(o, tl) ==
    IF \E e \in Range(ItemsOf(tl)) : ~Hashable(e) THEN Raise(o, "TypeError")
    ELSE Ok([o EXCEPT !.items = DictZip(ItemsOf(tl), TimesOf(tl))])

\* self._timing = deque(t) is done when _rebuild_items raises
TtlLoadFromTimingListBody(o, tl, t) ==
    IF tl.tag # "list" THEN Throw(o, "TypeError")
    ELSE LET r == RebuildItems([o EXCEPT !.timing = tl.val], tl.val)
         IN  IF r.err # "none" THEN Throw(r.obj, r.err) ELSE Return(r.obj, None)

\* json.dumps writes a tuple as an array; it cannot write a datetime
JsonItem(e) == IF e = "(t)" THEN "[t]" ELSE e
JsonDumps(timing) == [i \in 1..Len(timing) |-> <<timing[i][1], JsonItem(timing[i][2])>>]
\* json.loads of a text json.dumps wrote: the arrays come back as lists
JsonLoads(text) == text
\* the str json.dumps returns: a str, told apart from an element by its field
Text(j) == [tag |-> "str", json |-> j]

TtlSerializeBody(o, arg, t) ==
    IF o.kind = "TTL" /\ o.timing # <<>> THEN Throw(o, "TypeError")
    ELSE Return(o, Text(JsonDumps(o.timing)))

\* self._timing = deque(json.loads(s)); _items is left as it was
TtlDeserializeBody(o, s, t) ==
    IF s.tag # "str" THEN Throw(o, "TypeError")
    ELSE Return([o EXCEPT !.timing = JsonLoads(s.json)], None)


(***************************************************************************)
(* The decorators, without the lock (the lock is modelled with the         *)
(* threads below).                                                         *)
(***************************************************************************)
\* func(obj, ...): the decorated method, by class and name
BodyOf(op, o, arg, t) ==
    IF o.kind = "LRU"
    THEN CASE op = "add" -> LruAddBody(o, arg.val, t)
           [] op = "items" -> LruItemsBody(o, arg, t)
           [] op = "dump" -> LruDumpBody(o, arg, t)
           [] op = "load" -> LruLoadBody(o, arg, t)
    ELSE CASE op = "add" -> TtlAddBody(o, arg.val, t)
           [] op = "items" -> TtlItemsBody(o, arg, t)
           [] op = "dump" -> TtlDumpBody(o, arg.val, t)
           [] op = "dump_timing_list" -> TtlDumpTimingListBody(o, arg, t)
           [] op = "serialize" -> TtlSerializeBody(o, arg, t)
           [] op = "load" -> TtlLoadBody(o, arg, t)
           [] op = "load_from_timing_list" -> TtlLoadFromTimingListBody(o, arg, t)
           [] op = "deserialize" -> TtlDeserializeBody(o, arg, t)

\* expire: obj._check_expired(); return func(obj, ...)
Expire(op, o, arg, t) ==
    LET c == CheckExpired(o, t)
    IN  IF c.err # "none" THEN Throw(c.obj, c.err) ELSE BodyOf(op, c.obj, arg, t)

\* expire_post: f = func(obj, ...); obj._check_expired(); return f
ExpirePost(op, o, arg, t) ==
    LET f == BodyOf(op, o, arg, t)
    IN  IF f.err # "none" THEN f
        ELSE LET c == CheckExpired(f.obj, t)
             IN  IF c.err # "none" THEN Throw(c.obj, c.err)
                 ELSE Return(c.obj, f.ret)

(***************************************************************************)
(* The public operations, as decorated in the source.                      *)
(***************************************************************************)
Add(o, item, t) == Expire("add", o, Str(item), t)

Items(o, t) == Expire("items", o, None, t)

Dump(o, include_params, t) == Expire("dump", o, Bool(include_params), t)

Load(o, v, t) == ExpirePost("load", o, v, t)

DumpTimingList(o, t) == Expire("dump_timing_list", o, None, t)

LoadFromTimingList(o, tl, t) == ExpirePost("load_from_timing_list", o, tl, t)

Serialize(o, t) == Expire("serialize", o, None, t)

Deserialize(o, s, t) == ExpirePost("deserialize", o, s, t)

(***************************************************************************)
(* What a caller passes in.                                                *)
(***************************************************************************)
\* timestamps a caller writes into a snapshot by hand: the current reading
\* of the instance's clock, or the reading at time 0
Stamps(o, t) == {NoRightNow(o, t), 0}

\* elements a caller writes into a snapshot by hand
HandElements == {"a", "b"}

HandTimings(o, t) == SeqsUpTo(Stamps(o, t) \X HandElements, MaxLoadLen)

\* snapshots built by hand: well formed, of unequal lengths, or lacking a key
HandDicts(o, t) ==
    LET il == SeqsUpTo(HandElements, MaxLoadLen)
        tl == SeqsUpTo(Stamps(o, t), MaxLoadLen)
    IN  {Dict([item_list |-> i, timing_list |-> s]) : i \in il, s \in tl}
        \cup {Dict([item_list |-> i]) : i \in il}
        \cup {Dict([timing_list |-> s]) : s \in tl}

\* What the model keeps of the argument of a restore call: its type and, of
\* a dict, its keys and the lengths of its two lists (-1: no such key).
ShapeOf(v) ==
    IF v.tag = "dict"
    THEN [tag |-> "dict", keys |-> DOMAIN v.val,
          items |-> IF "item_list" \in DOMAIN v.val THEN Len(v.val.item_list) ELSE -1,
          times |-> IF "timing_list" \in DOMAIN v.val THEN Len(v.val.timing_list) ELSE -1]
    ELSE [tag |-> v.tag]

NoInstance == [kind |-> "none"]
NoCall == [op |-> "init", arg |-> None, ret |-> None, err |-> "none", at |-> 0]

\* a call on obj has returned (or raised): r is its outcome
Called(op, arg, r) ==
    /\ obj' = r.obj
    /\ call' = [op |-> op, arg |-> arg, ret |-> r.ret, err |-> r.err, at |-> clock]
    /\ other' = NoInstance

ThreadVars == <<lock, pc, locked, job>>

(***************************************************************************)
(* One caller, one call at a time: TTLArray and STLArray.                  *)
(***************************************************************************)
InitTTL ==
    /\ obj \in {NewTTL(k, to, ro, ml, ts) :
                    k \in {"TTL", "STL"}, to \in 1..MaxTimeout, ro \in BOOLEAN,
                    ml \in 0..MaxCap, ts \in {FALSE}}
    /\ clock = 0
    /\ ticks = 0
    /\ call = NoCall
    /\ other = NoInstance
    /\ restored = FALSE
    /\ recent = <<>>
    /\ lock = 0
    /\ pc = [th \in Threads |-> "idle"]
    /\ locked = [th \in Threads |-> FALSE]
    /\ job = [th \in Threads |-> [op |-> "none", arg |-> None]]

\* time passes between two calls
Tick ==
    /\ ticks < MaxTicks
    /\ \E d \in Advances : clock' = clock + d
    /\ ticks' = ticks + 1
    /\ UNCHANGED <<obj, call, other, restored, recent, ThreadVars>>

TtlAdd ==
    /\ \E item \in Elements : Called("add", Str(item), Add(obj, item, clock))
    /\ UNCHANGED <<clock, ticks, restored, recent, ThreadVars>>

TtlItems ==
    /\ Called("items", None, Items(obj, clock))
    /\ UNCHANGED <<clock, ticks, restored, recent, ThreadVars>>

TtlDump ==
    /\ \E b \in BOOLEAN : Called("dump", Bool(b), Dump(obj, b, clock))
    /\ UNCHANGED <<clock, ticks, restored, recent, ThreadVars>>

\* obj.load(obj.dump(...)): load of what dump has just returned
TtlLoad ==
    /\ call.op = "dump"
    /\ Called("load", ShapeOf(call.ret), Load(obj, call.ret, clock))
    /\ restored' = TRUE
    /\ UNCHANGED <<clock, ticks, recent, ThreadVars>>

\* load of a snapshot the caller built by hand
TtlLoadHand ==
    /\ \E v \in HandDicts(obj, clock) :
            Called("load", ShapeOf(v), Load(obj, v, clock))
    /\ restored' = TRUE
    /\ UNCHANGED <<clock, ticks, recent, ThreadVars>>

TtlDumpTimingList ==
    /\ Called("dump_timing_list", None, DumpTimingList(obj, clock))
    /\ UNCHANGED <<clock, ticks, restored, recent, ThreadVars>>

TtlLoadFromTimingList ==
    /\ call.op = "dump_timing_list"
    /\ Called("load_from_timing_list", ShapeOf(call.ret),
              LoadFromTimingList(obj, call.ret, clock))
    /\ restored' = TRUE
    /\ UNCHANGED <<clock, ticks, recent, ThreadVars>>

TtlLoadFromTimingListHand ==
    /\ \E tl \in HandTimings(obj, clock) :
            Called("load_from_timing_list", ShapeOf(List(tl)),
                   LoadFromTimingList(obj, List(tl), clock))
    /\ restored' = TRUE
    /\ UNCHANGED <<clock, ticks, recent, ThreadVars>>

TtlSerialize ==
    /\ Called("serialize", None, Serialize(obj, clock))
    /\ UNCHANGED <<clock, ticks, restored, recent, ThreadVars>>

TtlDeserialize ==
    /\ call.op = "serialize"
    /\ Called("deserialize", ShapeOf(call.ret), Deserialize(obj, call.ret, clock))
    /\ restored' = TRUE
    /\ UNCHANGED <<clock, ticks, recent, ThreadVars>>

\* TTLArray() / STLArray(): every parameter at its default
Fresh(kind) == NewTTL(kind, DefaultTimeout, FALSE, DefaultMaxLength, TRUE)
\* a second instance built with the arguments obj has now
Twin(o) == NewTTL(o.kind, o.timeout, o.retain_one, o.max_length, o.threadsafe)

\* the snapshot obj.dump(...) just returned is loaded into a fresh instance
LoadFresh ==
    /\ call.op = "dump"
    /\ LET r == Load(Fresh(obj.kind), call.ret, clock)
       IN  /\ other' = r.obj
           /\ call' = [op |-> "fresh.load", arg |-> ShapeOf(call.ret),
                       ret |-> r.ret, err |-> r.err, at |-> clock]
    /\ UNCHANGED <<obj, clock, ticks, restored, recent, ThreadVars>>

\* the text obj.serialize() just returned is read into a second instance
DeserializeFresh ==
    /\ call.op = "serialize"
    /\ call.err = "none"
    /\ \E f \in {Fresh(obj.kind), Twin(obj)} :
         LET r == Deserialize(f, call.ret, clock)
         IN  /\ other' = r.obj
             /\ call' = [op |-> "fresh.deserialize", arg |-> ShapeOf(call.ret),
                         ret |-> r.ret, err |-> r.err, at |-> clock]
    /\ UNCHANGED <<obj, clock, ticks, restored, recent, ThreadVars>>

NextTTL ==
    \/ Tick
    \/ TtlAdd
    \/ TtlItems
    \/ TtlDump
    \/ TtlLoad
    \/ TtlDumpTimingList
    \/ TtlLoadFromTimingList
    \/ TtlSerialize
    \/ TtlDeserialize
    \/ LoadFresh
    \/ DeserializeFresh

SpecTTL == InitTTL /\ [][NextTTL]_vars

\* the same, the caller also restoring snapshots it built by hand
NextRestore ==
    \/ Tick
    \/ TtlAdd
    \/ TtlItems
    \/ TtlLoadHand
    \/ TtlLoadFromTimingListHand

SpecRestore == InitTTL /\ [][NextRestore]_vars

\* a collection built by add calls only
NextAdds ==
    \/ Tick
    \/ TtlAdd
    \/ TtlItems

SpecAdds == InitTTL /\ [][NextAdds]_vars


(***************************************************************************)
(* One caller, one call at a time: LRUArray.                               *)
(***************************************************************************)
InitLRU ==
    /\ obj \in {NewLRU(ml, FALSE) : ml \in 0..MaxCap}
    /\ clock = 0
    /\ ticks = 0
    /\ call = NoCall
    /\ other = NoInstance
    /\ restored = FALSE
    /\ recent = <<>>
    /\ lock = 0
    /\ pc = [th \in Threads |-> "idle"]
    /\ locked = [th \in Threads |-> FALSE]
    /\ job = [th \in Threads |-> [op |-> "none", arg |-> None]]

\* the elements of s other than x, in their order
Without(s, x) == SelectSeq(s, LAMBDA e : e # x)

LruAdd ==
    /\ \E item \in Elements :
            /\ Called("add", Str(item), Add(obj, item, clock))
            /\ recent' = <<item>> \o Without(recent, item)
    /\ UNCHANGED <<clock, ticks, restored, ThreadVars>>

LruItems ==
    /\ Called("items", None, Items(obj, clock))
    /\ UNCHANGED <<clock, ticks, restored, recent, ThreadVars>>

LruDump ==
    /\ Called("dump", None, Dump(obj, FALSE, clock))
    /\ UNCHANGED <<clock, ticks, restored, recent, ThreadVars>>

\* obj.load(obj.dump()): load of what dump has just returned
LruLoad ==
    /\ call.op = "dump"
    /\ Called("load", ShapeOf(call.ret), Load(obj, call.ret, clock))
    /\ restored' = TRUE
    /\ UNCHANGED <<clock, ticks, recent, ThreadVars>>

\* load of a list the caller built by hand
LruLoadHand ==
    /\ \E l \in SeqsUpTo(Elements, MaxLoadLen) :
            Called("load", ShapeOf(List(l)), Load(obj, List(l), clock))
    /\ restored' = TRUE
    /\ UNCHANGED <<clock, ticks, recent, ThreadVars>>

NextLRU ==
    \/ LruAdd
    \/ LruItems
    \/ LruDump
    \/ LruLoad
    \/ LruLoadHand

SpecLRU == InitLRU /\ [][NextLRU]_vars


(***************************************************************************)
(* Several threads calling into one TTLArray / STLArray through the        *)
(* decorators.  A call is: read obj.threadsafe; if set, take the lock;     *)
(* run the check and the body (expire) or the body and the check           *)
(* (expire_post); leave the with block, which releases the lock also when  *)
(* an exception passes through it.  The check and the body are one step    *)
(* each: what another thread can see between them is what matters here.    *)
(***************************************************************************)
\* the check, as a call step
CheckStep(o, t) ==
    LET c == CheckExpired(o, t)
    IN  IF c.err # "none" THEN Throw(c.obj, c.err) ELSE Return(c.obj, None)

\* snapshots the threads load: one element, params that set threadsafe
ThreadSnapshots(o, t) ==
    {Dict([params |-> [Params(o) EXCEPT !._threadsafe = BoolStr(b)],
           timing_list |-> <<NoRightNow(o, t)>>,
           item_list |-> <<"a">>]) : b \in BOOLEAN}

InitThreads ==
    /\ obj \in {NewTTL("STL", to, FALSE, ml, ts) :
                    to \in 1..MaxTimeout, ml \in 1..MaxCap, ts \in BOOLEAN}
    /\ clock = 0
    /\ ticks = 0
    /\ call = NoCall
    /\ other = NoInstance
    /\ restored = FALSE
    /\ recent = <<>>
    /\ lock = 0
    /\ pc = [th \in Threads |-> "idle"]
    /\ locked = [th \in Threads |-> FALSE]
    /\ job = [th \in Threads |-> [op |-> "none", arg |-> None]]

SeqVars == <<clock, ticks, call, other, restored, recent>>

\* func_wrapper is entered: "if obj.threadsafe:" reads the flag
Enter(th, op, arg) ==
    /\ pc[th] = "idle"
    /\ job' = [job EXCEPT ![th] = [op |-> op, arg |-> arg]]
    /\ locked' = [locked EXCEPT ![th] = obj.threadsafe]
    /\ pc' = [pc EXCEPT ![th] = IF obj.threadsafe THEN "acquire" ELSE "first"]
    /\ UNCHANGED <<obj, lock, SeqVars>>

Begin(th) ==
    \/ \E e \in HandElements : Enter(th, "add", Str(e))
    \/ Enter(th, "items", None)
    \/ Enter(th, "dump", Bool(TRUE))
    \/ Enter(th, "dump_timing_list", None)
    \/ Enter(th, "serialize", None)
    \/ \E v \in ThreadSnapshots(obj, clock) : Enter(th, "load", v)
    \/ Enter(th, "load_from_timing_list", List(<<<<NoRightNow(obj, clock), "b">>>>))
    \/ Enter(th, "deserialize", Text(JsonDumps(<<<<NoRightNow(obj, clock), "b">>>>)))

\* with lock: blocks until the lock is free
Acquire(th) ==
    /\ pc[th] = "acquire"
    /\ lock = 0
    /\ lock' = th
    /\ pc' = [pc EXCEPT ![th] = "first"]
    /\ UNCHANGED <<obj, locked, job, SeqVars>>

\* the first half of the wrapper: the check (expire) or the body (expire_post)
First(th) ==
    /\ pc[th] = "first"
    /\ LET r == IF job[th].op \in {"load", "load_from_timing_list", "deserialize"}
                THEN BodyOf(job[th].op, obj, job[th].arg, clock)
                ELSE CheckStep(obj, clock)
       IN  /\ obj' = r.obj
           /\ pc' = [pc EXCEPT ![th] = IF r.err # "none" THEN "exit" ELSE "second"]
    /\ UNCHANGED <<lock, locked, job, SeqVars>>

\* the second half: the body (expire) or the check (expire_post)
Second(th) ==
    /\ pc[th] = "second"
    /\ LET r == IF job[th].op \in {"load", "load_from_timing_list", "deserialize"}
                THEN CheckStep(obj, clock)
                ELSE BodyOf(job[th].op, obj, job[th].arg, clock)
       IN  /\ obj' = r.obj
           /\ pc' = [pc EXCEPT ![th] = "exit"]
    /\ UNCHANGED <<lock, locked, job, SeqVars>>

\* a with block that keeps the lock when the base-class call raises
ExitKeepsLockOnError(th) ==
    /\ pc[th] = "exit"
    /\ lock' = IF locked[th] /\ job[th].op # "base.add" THEN 0 ELSE lock
    /\ pc' = [pc EXCEPT ![th] = "idle"]
    /\ UNCHANGED <<obj, locked, job, SeqVars>>

\* the with block is left (by return or by exception) and the call ends
Exit(th) ==
    /\ pc[th] = "exit"
    /\ lock' = IF locked[th] THEN 0 ELSE lock
    /\ pc' = [pc EXCEPT ![th] = "idle"]
    /\ UNCHANGED <<obj, locked, job, SeqVars>>

NextThreads ==
    \E th \in Threads :
        \/ Begin(th)
        \/ Acquire(th)
        \/ First(th)
        \/ Second(th)
        \/ Exit(th)

SpecThreads == InitThreads /\ [][NextThreads]_vars

(***************************************************************************)
(* Threads whose calls may end in an exception, under fair scheduling.     *)
(* Besides the calls on obj, a thread may call add on a BaseExpiringArray  *)
(* built with threadsafe=True: the module lock is shared by every          *)
(* instance, and inside the with block obj._check_expired() raises.        *)
(***************************************************************************)
InitFair ==
    /\ obj \in {NewTTL("STL", 1, FALSE, ml, TRUE) : ml \in 0..1}
    /\ clock = 0
    /\ ticks = 0
    /\ call = NoCall
    /\ other = NoInstance
    /\ restored = FALSE
    /\ recent = <<>>
    /\ lock = 0
    /\ pc = [th \in Threads |-> "idle"]
    /\ locked = [th \in Threads |-> FALSE]
    /\ job = [th \in Threads |-> [op |-> "none", arg |-> None]]

\* a snapshot without timing_list
SnapshotMissingField == Dict([item_list |-> <<"a">>])

\* the calls on obj: some return, load of SnapshotMissingField raises in its
\* body, and after a deserialize the eviction check may raise (_items does
\* not hold the element of the record it pops)
BeginFair(th) ==
    \/ Enter(th, "add", Str("a"))
    \/ Enter(th, "items", None)
    \/ \E v \in ThreadSnapshots(obj, clock) : Enter(th, "load", v)
    \/ Enter(th, "load", SnapshotMissingField)
    \/ Enter(th, "deserialize", Text(JsonDumps(<<<<NoRightNow(obj, clock), "b">>>>)))

\* BaseExpiringArray(threadsafe=True).add(): func_wrapper reads the flag
EnterBase(th) ==
    /\ pc[th] = "idle"
    /\ job' = [job EXCEPT ![th] = [op |-> "base.add", arg |-> None]]
    /\ locked' = [locked EXCEPT ![th] = TRUE]
    /\ pc' = [pc EXCEPT ![th] = "base.acquire"]
    /\ UNCHANGED <<obj, lock, SeqVars>>

\* with lock
AcquireBase(th) ==
    /\ pc[th] = "base.acquire"
    /\ lock = 0
    /\ lock' = th
    /\ pc' = [pc EXCEPT ![th] = "base.check"]
    /\ UNCHANGED <<obj, locked, job, SeqVars>>

\* obj._check_expired(): the base class has no such method, AttributeError
CheckBase(th) ==
    /\ pc[th] = "base.check"
    /\ pc' = [pc EXCEPT ![th] = "exit"]
    /\ UNCHANGED <<obj, lock, locked, job, SeqVars>>

NextFair ==
    \E th \in Threads :
        \/ BeginFair(th)
        \/ EnterBase(th)
        \/ Acquire(th)
        \/ AcquireBase(th)
        \/ First(th)
        \/ CheckBase(th)
        \/ Second(th)
        \/ Exit(th)

\* every thread inside a call keeps running; a thread blocked on the lock
\* gets it if the lock is free again and again
Fairness ==
    \A th \in Threads :
        /\ WF_vars(First(th))
        /\ WF_vars(CheckBase(th))
        /\ WF_vars(Second(th))
        /\ WF_vars(Exit(th))
        /\ SF_vars(Acquire(th))
        /\ SF_vars(AcquireBase(th))

SpecFair == InitFair /\ [][NextFair]_vars /\ Fairness

(***************************************************************************)
(* One STLArray under a clock that also moves by fractions of a second:    *)
(* int(time.time()) drops the fraction at every reading.                   *)
(***************************************************************************)
\* how far the real clock moves between two calls, in clock units
FineAdvances == 1..((MaxTimeout + 1) * UnitsPerSecond)

\* the first call falls anywhere within a second
InitFine ==
    /\ obj \in {NewTTL("STL", to, FALSE, ml, FALSE) :
                    to \in 1..MaxTimeout, ml \in 1..MaxCap}
    /\ clock \in 0..(UnitsPerSecond - 1)
    /\ ticks = 0
    /\ call = NoCall
    /\ other = NoInstance
    /\ restored = FALSE
    /\ recent = <<>>
    /\ lock = 0
    /\ pc = [th \in Threads |-> "idle"]
    /\ locked = [th \in Threads |-> FALSE]
    /\ job = [th \in Threads |-> [op |-> "none", arg |-> None]]

TickFine ==
    /\ ticks < MaxTicks
    /\ \E d \in FineAdvances : clock' = clock + d
    /\ ticks' = ticks + 1
    /\ UNCHANGED <<obj, call, other, restored, recent, ThreadVars>>

NextFine ==
    \/ TickFine
    \/ TtlAdd
    \/ TtlItems

SpecFine == InitFine /\ [][NextFine]_vars

(***************************************************************************)
(* A TTLArray (obj) and an STLArray (other) built with the same arguments  *)
(* and given the same calls at the same whole-second clock readings.       *)
(***************************************************************************)
InitPair ==
    /\ \E to \in 1..MaxTimeout, ro \in BOOLEAN, ml \in 0..MaxCap :
            /\ obj = NewTTL("TTL", to, ro, ml, FALSE)
            /\ other = NewTTL("STL", to, ro, ml, FALSE)
    /\ clock = 0
    /\ ticks = 0
    /\ call = NoCall
    /\ restored = FALSE
    /\ recent = <<>>
    /\ lock = 0
    /\ pc = [th \in Threads |-> "idle"]
    /\ locked = [th \in Threads |-> FALSE]
    /\ job = [th \in Threads |-> [op |-> "none", arg |-> None]]

\* what the two instances returned, and what they raised
Both(op, arg, r1, r2) ==
    /\ obj' = r1.obj
    /\ other' = r2.obj
    /\ call' = [op |-> op, arg |-> arg, at |-> clock,
                ret |-> [tag |-> "pair", ttl |-> r1.ret, stl |-> r2.ret],
                err |-> IF r1.err # "none" THEN r1.err ELSE r2.err]

PairAdd ==
    /\ \E item \in HandElements :
            Both("add", Str(item), Add(obj, item, clock), Add(other, item, clock))
    /\ UNCHANGED <<clock, ticks, restored, recent, ThreadVars>>

PairItems ==
    /\ Both("items", None, Items(obj, clock), Items(other, clock))
    /\ UNCHANGED <<clock, ticks, restored, recent, ThreadVars>>

NextPair ==
    \/ Tick
    \/ PairAdd
    \/ PairItems

SpecPair == InitPair /\ [][NextPair]_vars

(***************************************************************************)
(* Properties.                                                             *)
(***************************************************************************)
\* a step of the caller that is a call (the clock stands still)
IsCall == ticks' = ticks

\* the operations decorated with expire: the check runs, then the body
PreChecked == {"add", "items", "dump", "dump_timing_list", "serialize"}

\* seconds really elapsed at time t since a record of o was stamped
Age(o, t, date_obj) ==
    IF o.kind = "STL" THEN NoRightNow(o, t) - date_obj
    ELSE (t - date_obj) \div UnitsPerSecond

Take(s, n) == SubSeq(s, 1, Min(n, Len(s)))

\* C1: every value items() returns has at most max_length elements, unless
\* retain_one is set and the collection holds exactly one element.
\* (checked on TTLArray / STLArray, the caller also loading snapshots it built)
C1_ItemsWithinCapacity ==
    (call.op = "items" /\ call.err = "none") =>
        \/ Len(call.ret.val) <= obj.max_length
        \/ obj.retain_one /\ (Len(call.ret.val) = 1 \/ Cardinality(DOMAIN obj.items) = 1)

\* C2: on a collection built by add calls, right after a call that runs the
\* eviction check first, no record that was stored before the call is older
\* than timeout, unless retain_one is set and the collection holds exactly
\* one element (when the check runs, or after the call).
C2_NoExpiredRecordRemains ==
    [][(/\ IsCall
        /\ ~restored'
        /\ call'.op \in PreChecked
        /\ call'.err = "none"
        /\ ~CheckRetainOne(obj)
        /\ ~(obj'.retain_one /\ Len(obj'.timing) = 1))
       => \A i \in 1..Len(obj'.timing) :
            obj'.timing[i] \in Range(obj.timing)
                => Age(obj', clock', obj'.timing[i][1]) <= obj'.timeout]_vars

\* C3: with retain_one set, a collection that holds an element is never made
\* empty by add and items calls, whatever the clock does.
C3_RetainOneNeverEmpty ==
    [][(/\ IsCall
        /\ ~restored'
        /\ obj.retain_one
        /\ obj.timing # <<>>
        /\ call'.op \in {"add", "items"})
       => obj'.timing # <<>>]_vars

\* C4: after any sequence of add calls on an LRUArray, items() is the
\* max_length most recently added distinct elements, most recent first.
C4_LruItemsAreMostRecent ==
    (obj.kind = "LRU" /\ ~restored /\ call.op = "items") =>
        /\ call.err = "none"
        /\ call.ret = List(Take(recent, obj.max_length))

C4_Witness ==
    /\ obj.kind = "LRU" /\ ~restored /\ call.op = "items"
    /\ Len(recent) > obj.max_length
    /\ Len(call.ret.val) = 2
    /\ call.ret.val[1] # recent[Len(recent)]

\* C5: with retain_one set and exactly one element stored, items() returns
\* that element and leaves the collection as it was, whatever the element's
\* age and whatever max_length is.
C5_RetainOneSuspendsEviction ==
    [][(/\ IsCall
        /\ call'.op = "items"
        /\ obj.retain_one
        /\ Len(obj.timing) = 1
        /\ Cardinality(DOMAIN obj.items) = 1)
       => /\ call'.err = "none"
          /\ call'.ret = List(ItemsOf(obj.timing))
          /\ obj' = obj]_vars

\* the single element is older than timeout and max_length is 0
C5_Witness ==
    /\ call.op = "items" /\ call.err = "none"
    /\ obj.kind # "LRU" /\ obj.retain_one
    /\ obj.max_length = 0
    /\ Len(call.ret.val) = 1
    /\ Len(obj.timing) = 1
    /\ Age(obj, clock, obj.timing[1][1]) > obj.timeout
    /\ ElapsedTime(obj, clock, obj.timing[1][1]) > obj.timeout

\* C6: a call that began while obj.threadsafe was true runs its check and
\* its body with no step of another thread's call on the instance's data in
\* between.
C6_CallsAreAtomic ==
    [][\A a, b \in Threads :
        (/\ a # b
         /\ locked[a]
         /\ pc[a] = "second"
         /\ pc[b] \in {"first", "second"})
        => pc'[b] = pc[b]]_vars

\* C7: dump(include_params=True) loaded into a fresh instance, the clock
\* standing still, gives an instance with the same items() and the same
\* timeout, max_length, retain_one and threadsafe, whatever obj holds.
C7_DumpLoadRoundTrip ==
    [][(/\ call.op = "dump" /\ call.arg = Bool(TRUE) /\ call.err = "none"
        /\ call.at = clock
        /\ call'.op = "fresh.load")
       => /\ call'.err = "none"
          /\ Items(other', clock').ret = Items(obj', clock').ret
          /\ other'.timeout = obj'.timeout
          /\ other'.max_length = obj'.max_length
          /\ other'.retain_one = obj'.retain_one
          /\ other'.threadsafe = obj'.threadsafe]_vars

\* C8: on an LRUArray, load(dump()) leaves items() as it was before the
\* dump: neither the dump nor the load of what it returned changes what
\* items() returns.
C8_LruLoadDumpKeepsItems ==
    [][/\ call'.op = "dump" =>
            /\ call'.err = "none"
            /\ Items(obj', clock').ret = Items(obj, clock).ret
       /\ (call.op = "dump" /\ call'.op = "load" /\ call'.arg.tag = "deque") =>
            /\ call'.err = "none"
            /\ Items(obj', clock').ret = Items(obj, clock).ret]_vars

C8_Witness ==
    /\ obj.kind = "LRU"
    /\ call.op = "load" /\ call.arg.tag = "deque" /\ call.err = "none"
    /\ Len(obj.items) = 2
    /\ obj.items[1] # obj.items[2]

\* C9: on an STLArray, deserialize(serialize()), the clock standing still,
\* gives the same timing records in the same order, on the same instance and
\* on a fresh one.
C9_SerializeRoundTrip ==
    [][(/\ obj.kind = "STL"
        /\ call.op = "serialize" /\ call.err = "none"
        /\ call.at = clock
        /\ call'.op \in {"deserialize", "fresh.deserialize"})
       => /\ call'.err = "none"
          /\ call'.op = "deserialize" => obj'.timing = obj.timing
          /\ call'.op = "fresh.deserialize" => other'.timing = obj.timing]_vars

\* C10: a load given a snapshot without item_list or timing_list, or with
\* lists of different lengths, ends in an error.
C10_MalformedLoadRaises ==
    (/\ call.op = "load"
     /\ call.arg.tag = "dict"
     /\ \/ "item_list" \notin call.arg.keys
        \/ "timing_list" \notin call.arg.keys
        \/ call.arg.items # call.arg.times)
    => call.err # "none"

\* C11: an STLArray (retain_one false) holds the single element x, added at
\* real time t0; an add(y) at real time t1 with t1 - t0 > timeout evicts x
\* before y goes in, so that items() is [y].
C11_AddEvictsAfterTimeout ==
    [][(/\ obj.kind = "STL" /\ ~obj.retain_one
        /\ call.op = "add" /\ call.err = "none"
        /\ ItemsOf(obj.timing) = <<call.arg.val>>
        /\ DOMAIN obj.items = {call.arg.val}
        /\ clock - call.at > obj.timeout * UnitsPerSecond
        /\ call'.op = "add" /\ call'.at = clock
        /\ call'.arg.val # call.arg.val)
       => /\ call'.err = "none"
          /\ ItemsOf(obj'.timing) = <<call'.arg.val>>
          /\ Items(obj', clock').ret = List(<<call'.arg.val>>)]_vars

\* no element occurs twice in the sequence s
NoDuplicates(s) == \A i, j \in 1..Len(s) : s[i] = s[j] => i = j

\* C12: in every state of an LRUArray reached through add and load (of any
\* sequence), the deque holds no element twice, and neither does a list
\* items() returns.
C12_LruHoldsNoDuplicates ==
    obj.kind = "LRU" =>
        /\ NoDuplicates(obj.items)
        /\ (call.op = "items" /\ call.err = "none") => NoDuplicates(call.ret.val)

\* the sequence an instance stores: the deque of an LRUArray, _timing otherwise
Stored(o) == IF o.kind = "LRU" THEN o.items ELSE o.timing

\* the calls whose eviction check is the last thing to touch the instance:
\* the check comes last (expire_post) or the body after it changes nothing
EndsChecked ==
    {"items", "dump", "dump_timing_list", "serialize",
     "load", "load_from_timing_list", "deserialize"}

\* C13: when a call has just run the eviction check and items() follows with
\* the clock standing still and no add in between, the check of items()
\* changes nothing: the stored sequence is as the first check left it, and
\* an items() that follows an items() returns the same list.
C13_CheckIsIdempotent ==
    [][(/\ call.op \in EndsChecked /\ call.err = "none"
        /\ call.at = clock
        /\ call'.op = "items" /\ call'.at = clock)
       => /\ call'.err = "none"
          /\ Stored(obj') = Stored(obj)
          /\ call.op = "items" => call'.ret = call.ret]_vars

\* C14: when add has returned and no other call has been made since, the
\* instance stores at most max_length elements.
C14_AddLeavesWithinCapacity ==
    (call.op = "add" /\ call.err = "none") =>
        Len(Stored(obj)) <= obj.max_length

\* _items and _timing of o hold the same elements, one record per element,
\* each with the time the dict gives
Consistent(o) ==
    /\ DOMAIN o.items = Range(ItemsOf(o.timing))
    /\ NoDuplicates(ItemsOf(o.timing))
    /\ \A i \in 1..Len(o.timing) :
            o.timing[i][2] \in DOMAIN o.items
                => o.items[o.timing[i][2]] = o.timing[i][1]

\* C15: in every state of a TTLArray / STLArray, the element-to-timestamp
\* dict and the timing sequence agree: same elements, one record each, same
\* timestamps.  (obj, and the second instance a text was deserialized into.)
C15_MapMatchesSequence ==
    /\ obj.kind \in {"TTL", "STL"} => Consistent(obj)
    /\ other.kind \in {"TTL", "STL"} => Consistent(other)

\* the calls whose body cannot raise: an exception out of one of them is an
\* exception of the eviction check
BodyNeverRaises ==
    \/ call.op \in {"items", "dump", "dump_timing_list"}
    \/ call.op \in {"deserialize", "fresh.deserialize"} /\ call.arg.tag = "str"

\* C16: the eviction check of a TTLArray / STLArray never raises: a call
\* whose body cannot raise ends without an exception, and in every state
\* reached the check that the next call would run (on obj, or on the
\* instance a text was deserialized into) completes.
C16_CheckNeverRaises ==
    /\ BodyNeverRaises => call.err = "none"
    /\ obj.kind \in {"TTL", "STL"} => CheckExpired(obj, clock).err = "none"
    /\ other.kind \in {"TTL", "STL"} => CheckExpired(other, clock).err = "none"

\* timestamps do not increase from the head (index 1) to the tail
SortedNewestFirst(timing) ==
    \A i \in 1..(Len(timing) - 1) : timing[i][1] >= timing[i + 1][1]

\* C17: in every state reached through add, items, dump, dump_timing_list
\* and restores of what dump / dump_timing_list (or serialize) returned, the
\* clock never going back, the timing sequence is sorted by timestamp,
\* newest at the head.
C17_TimingStaysSorted ==
    /\ obj.kind \in {"TTL", "STL"} => SortedNewestFirst(obj.timing)
    /\ other.kind \in {"TTL", "STL"} => SortedNewestFirst(other.timing)

\* a dump holding two records of different times has been loaded back
C17_Witness ==
    /\ call.op = "load" /\ call.err = "none" /\ call.arg.tag = "dict"
    /\ Len(obj.timing) = 2
    /\ obj.timing[1][1] > obj.timing[2][1]

\* the record rec of o is fresh at time t: now - timestamp <= timeout
FreshRecord(o, t, rec) ==
    IF o.kind = "STL" THEN NoRightNow(o, t) - rec[1] <= o.timeout
    ELSE t - rec[1] <= o.timeout * UnitsPerSecond

\* the fresh records of o at time t, in their order
FreshRecords(o, t) == SelectSeq(o.timing, LAMBDA rec : FreshRecord(o, t, rec))

\* the calls that run the check first and whose body stores nothing
ReadsAfterCheck == {"items", "dump", "dump_timing_list", "serialize"}

\* C18: on a collection built by add calls only, a check that starts with at
\* most max_length elements stored removes no fresh record: the records
\* with now - timestamp <= timeout are all there after it, in their order.
C18_SweepKeepsFreshRecords ==
    [][(/\ IsCall
        /\ ~restored
        /\ call'.op \in ReadsAfterCheck
        /\ Len(obj.timing) <= obj.max_length)
       => FreshRecords(obj', clock) = FreshRecords(obj, clock)]_vars

\* items() ran its check on a fresh record at the head and an expired one
\* behind it, and with a record whose age is exactly timeout
C18_Witness ==
    /\ call.op = "items" /\ call.err = "none" /\ call.at = clock
    /\ ~restored
    /\ Len(obj.timing) = 2
    /\ Age(obj, clock, obj.timing[1][1]) = obj.timeout
    /\ FreshRecord(obj, clock, obj.timing[1])
    /\ ~FreshRecord(obj, clock, obj.timing[2])

Waiting(th) == pc[th] \in {"acquire", "base.acquire"}

\* C19: the lock is released on every way out of a call, exceptions
\* included: a thread that is not inside a call never holds it; hence, the
\* scheduling being fair, a thread waiting for the lock gets it and every
\* call returns.
C19_LockReleasedAndCallsReturn ==
    /\ [](\A th \in Threads : pc[th] = "idle" => lock # th)
    /\ \A th \in Threads : Waiting(th) ~> lock = th
    /\ \A th \in Threads : pc[th] # "idle" ~> pc[th] = "idle"

\* a call is leaving the with block on an exception, holding the lock,
\* while the other thread waits for it
C19_Witness ==
    \E a, b \in Threads :
        /\ pc[a] = "exit" /\ job[a].op = "base.add" /\ lock = a
        /\ Waiting(b)

\* C20: a TTLArray and an STLArray with the same timeout, max_length and
\* retain_one, given the same add and items calls at the same whole-second
\* clock readings (gaps of a day included), return the same items().
C20_TtlAndStlAgree ==
    (call.op = "items" /\ call.ret.tag = "pair") =>
        /\ call.err = "none"
        /\ call.ret.ttl = call.ret.stl

====
